---- MODULE Spec2Model ----
(***************************************************************************)
(* A model of `line`: the selector parser and normaliser                   *)
(* (src/src/line_selector.rs), the forward line reader                     *)
(* (src/src/line_reader.rs) and the counting, read and output passes of    *)
(* main (src/src/main.rs).                                                 *)
(*                                                                         *)
(* usize values are kept as integers; a value that wrapped below zero in   *)
(* a build without overflow checks is kept as the negative integer -k,     *)
(* which stands for 2^64 - k (see ULess).                                  *)
(***************************************************************************)
EXTENDS Integers, Sequences, FiniteSets, TLC

(***************************************************************************)
(* Bounds of the model.                                                    *)
(***************************************************************************)
\* largest number of lines of a file of the run
MaxLines == 3
\* largest number of selectors on the command line
MaxSelectors == 2
\* largest n_lines the normaliser is applied to on its own
MaxN == 5
\* largest |step| the normaliser is applied to on its own
MaxStep == 3
\* longest token handed to from_str on its own
MaxTokenLen == 5
\* longest byte stream handed to a LineReader on its own
MaxStreamLen == 5

(***************************************************************************)
(* Bytes.                                                                  *)
(***************************************************************************)
NL == 10
Colon == 58
Minus == 45
Plus == 43
Space == 32
Zero == 48
NUL == 0
\* the byte that fills line 0; line i is filled with LetterO + i
LetterO == 111
\* size of the buffer read for the binary check
PrefixLen == 128

(***************************************************************************)
(* Option<isize>, Result and the error values.                             *)
(***************************************************************************)
None == [some |-> FALSE, v |-> 0]
Some(x) == [some |-> TRUE, v |-> x]

NoErr == [kind |-> "none", num |-> 0, n_lines |-> 0, text |-> << >>]
OutOfRange(num, n) == [kind |-> "OutOfRange", num |-> num, n_lines |-> n, text |-> << >>]
StartMoreThanEnd == [kind |-> "StartMoreThanEnd", num |-> 0, n_lines |-> 0, text |-> << >>]
StartLessThanEnd == [kind |-> "StartLessThanEnd", num |-> 0, n_lines |-> 0, text |-> << >>]
ZeroNotAllowed == [kind |-> "ZeroNotAllowed", num |-> 0, n_lines |-> 0, text |-> << >>]
EmptySelector == [kind |-> "Empty", num |-> 0, n_lines |-> 0, text |-> << >>]
NotANumber(s) == [kind |-> "NotANumber", num |-> 0, n_lines |-> 0, text |-> s]
\* a panic of the process (arithmetic overflow in a checked build, missing key)
Panicked == [kind |-> "Panic", num |-> 0, n_lines |-> 0, text |-> << >>]

Ok(x) == [ok |-> TRUE, val |-> x, err |-> NoErr]
Err(e) == [ok |-> FALSE, val |-> 0, err |-> e]

Abs(x) == IF x < 0 THEN -x ELSE x
Min(a, b) == IF a <= b THEN a ELSE b

\* faulty variant: less than or equal
ULess_or_equal(a, b) ==
    IF a >= 0 /\ b >= 0 THEN a <= b
    ELSE IF a < 0 /\ b < 0 THEN a <= b
    ELSE b < 0

\* a < b on usize, a negative integer -k standing for 2^64 - k
ULess(a, b) ==
    IF a >= 0 /\ b >= 0 THEN a < b
    ELSE IF a < 0 /\ b < 0 THEN a < b
    ELSE b < 0

ULessEq(a, b) == a = b \/ ULess(a, b)

(***************************************************************************)
(* ParsedLineSelector and RawLineSelector.                                 *)
(***************************************************************************)
Single(line) == [kind |-> "Single", start |-> line, end |-> line, step |-> 0]
Range(start, end, step) == [kind |-> "Range", start |-> start, end |-> end, step |-> step]

RawSingle(n) == [kind |-> "Single", start |-> Some(n), end |-> None, step |-> None]
RawRange(s, e) == [kind |-> "Range", start |-> s, end |-> e, step |-> None]
RawRangeWithStep(s, e, st) == [kind |-> "RangeWithStep", start |-> s, end |-> e, step |-> st]

(***************************************************************************)
(* State.                                                                  *)
(***************************************************************************)
VARIABLES
    argv,                     \* the selector tokens of --line, as typed
    file,                     \* the bytes of FILE
    plain,                    \* --plain
    allow_binary_files,       \* --allow-binary-files
    overflow_checks,          \* build profile: arithmetic overflow panics (TRUE) or wraps
    pc,                       \* position of main
    original_line_selectors,  \* args.original_line_selectors
    n_lines,                  \* main: n_lines
    pos,                      \* bytes of file consumed by the BufReader
    line_selectors,           \* main: line_selectors (request order)
    sorted_line_selectors,    \* main: sorted_line_selectors
    current_line,             \* LineReader.current_line
    lines,                    \* main: lines, the cache (line number -> bytes)
    sel_i,                    \* read pass: index into sorted_line_selectors
    num_i,                    \* read pass: index into the line numbers of that selector
    out_i,                    \* output pass: index into line_selectors
    curr,                     \* output pass: curr of a range walk (None before the walk)
    stdout,                   \* bytes written to stdout
    exit,                     \* "running", "ok", "error", "usage", "panic"
    error,                    \* [selector, cause] of a failed run
    reads,                    \* history: the calls of read_specific_line
    lookups,                  \* history: the line numbers looked up by the output pass
    norm_raw,                 \* input of from_raw applied on its own
    norm_result,              \* its result
    parse_str,                \* the argument of a call of RawLineSelector::from_str
    parse_result,             \* its result
    lin_buf,                  \* the buffer handed to the LineReader by its caller
    last_call,                \* the last call on the LineReader and what it found
    display_str,              \* the result of a call of to_string on a RawLineSelector
    policy,                   \* the OutputWriter in use
    headers,                  \* the number of selector headers the writer was asked for
    last_write                \* the last call on the OutputWriter and the sink before it

vars == <<argv, file, plain, allow_binary_files, overflow_checks, pc,
          original_line_selectors, n_lines, pos, line_selectors,
          sorted_line_selectors, current_line, lines, sel_i, num_i, out_i, curr,
          stdout, exit, error, reads, lookups, norm_raw, norm_result,
          parse_str, parse_result, lin_buf, last_call,
                   display_str, policy, headers, last_write>>

(***************************************************************************)
(* usize arithmetic.                                                       *)
(***************************************************************************)
UsizeBits == 64

\* a - b on usize: panics in a build with overflow checks, wraps otherwise
USub(a, b) ==
    IF ULessEq(b, a) THEN Ok(a - b)
    ELSE IF overflow_checks THEN Err(Panicked)
    ELSE Ok(a - b)

UMin(a, b) == IF ULessEq(a, b) THEN a ELSE b

UAbsDiff(a, b) == IF ULess(a, b) THEN b - a ELSE a - b

RECURSIVE Pow2Mod(_, _)
\* 2^k mod m
Pow2Mod(k, m) == IF k = 0 THEN 1 % m ELSE (2 * Pow2Mod(k - 1, m)) % m

\* x / m * m on usize (m > 0)
UDivMul(x, m) ==
    IF x >= 0 THEN (x \div m) * m
    ELSE x - ((Pow2Mod(UsizeBits, m) + x) % m)

(***************************************************************************)
(* ParsedLineSelector::from_raw.                                           *)
(***************************************************************************)
\* faulty variant: a negative number counted from the line before the last one
to_positive_one_based_short(num, n) ==
    IF Abs(num) > n THEN Err(OutOfRange(num, n))
    ELSE IF num < 0 THEN Ok(n - (-num) - 1)
    ELSE USub(num, 1)

\* faulty variant: the range check lets the number n_lines + 1 through
to_positive_one_based_lenient(num, n) ==
    IF Abs(num) > n + 1 THEN Err(OutOfRange(num, n))
    ELSE IF num < 0 THEN Ok(n - (-num))
    ELSE USub(num, 1)

to_positive_one_based(num, n) ==
    IF Abs(num) > n THEN Err(OutOfRange(num, n))
    ELSE IF num < 0 THEN Ok(n - (-num))
    ELSE USub(num, 1)

\* start.map(to_positive_one_based).unwrap_or(Ok(0))
ResolveStart(start, n) ==
    IF start.some THEN to_positive_one_based(start.v, n) ELSE Ok(0)

\* end.map(to_positive_one_based).unwrap_or(Ok(n_lines - 1)): the argument of
\* unwrap_or is evaluated before the call
ResolveEnd(end, n) ==
    LET dflt == USub(n, 1)
    IN  IF ~dflt.ok THEN dflt
        ELSE IF end.some THEN to_positive_one_based(end.v, n)
        ELSE dflt

\* faulty variant: the end of an ascending range is rounded up to the next multiple
TightenUp_rounded_up(start, end, step) ==
    start + UDivMul(UAbsDiff(end, start) + Abs(step) - 1, Abs(step))

\* faulty variant: the end of an ascending range is left as given
TightenUp_untightened(start, end, step) == end

TightenUp(start, end, step) ==
    start + UDivMul(UAbsDiff(end, start), Abs(step))

TightenDown(start, end, step) ==
    start - UDivMul(UAbsDiff(end, start), Abs(step))

from_raw(raw, n) ==
    IF raw.kind = "Single" THEN
        LET line_num == to_positive_one_based(raw.start.v, n)
        IN  IF line_num.ok THEN Ok(Single(line_num.val)) ELSE line_num
    ELSE
        LET start == ResolveStart(raw.start, n)
            end == ResolveEnd(raw.end, n)
            step == IF raw.step.some THEN raw.step.v ELSE 1
        IN  IF ~start.ok THEN start
            ELSE IF ~end.ok THEN end
            ELSE IF raw.kind = "Range" THEN
                IF ULess(end.val, start.val) THEN Err(StartMoreThanEnd)
                ELSE IF start.val = end.val THEN Ok(Single(start.val))
                ELSE Ok(Range(start.val, end.val, 1))
            ELSE
                IF step > 0 /\ ULess(end.val, start.val) THEN Err(StartMoreThanEnd)
                ELSE IF step < 0 /\ ULess(start.val, end.val) THEN Err(StartLessThanEnd)
                ELSE IF start.val = end.val THEN Ok(Single(start.val))
                ELSE IF ULess(start.val, end.val)
                    THEN Ok(Range(start.val, TightenUp(start.val, end.val, step), step))
                    ELSE Ok(Range(start.val, TightenDown(start.val, end.val, step), step))

(***************************************************************************)
(* impl Ord for ParsedLineSelector.                                        *)
(***************************************************************************)
LowerBound(sel) ==
    IF sel.kind = "Single" THEN sel.start ELSE UMin(sel.start, sel.end)

cmp(a, b) ==
    IF LowerBound(a) = LowerBound(b) THEN "Equal"
    ELSE IF ULess(LowerBound(a), LowerBound(b)) THEN "Less"
    ELSE "Greater"

(***************************************************************************)
(* RawLineSelector::from_str and Display, on byte strings.                 *)
(***************************************************************************)
IsDigit(c) == c >= Zero /\ c <= Zero + 9

RECURSIVE TrimStart(_)
TrimStart(s) ==
    IF s # << >> /\ Head(s) = Space THEN TrimStart(Tail(s)) ELSE s

RECURSIVE TrimEnd(_)
TrimEnd(s) ==
    IF s # << >> /\ s[Len(s)] = Space THEN TrimEnd(SubSeq(s, 1, Len(s) - 1)) ELSE s

\* faulty variant: only the leading whitespace is removed
Trim_start_only(s) == TrimStart(s)

\* str::trim
Trim(s) == TrimEnd(TrimStart(s))

\* index of the first ':' of s, 0 when there is none
FirstColon(s) ==
    IF \E i \in 1..Len(s) : s[i] = Colon
    THEN CHOOSE i \in 1..Len(s) : s[i] = Colon /\ \A j \in 1..(i - 1) : s[j] # Colon
    ELSE 0

\* s.splitn(3, ':'): at most three parts, the third one keeps its colons
Splitn3(s) ==
    LET i == FirstColon(s)
    IN  IF i = 0 THEN <<s>>
        ELSE LET rest == SubSeq(s, i + 1, Len(s))
                 j == FirstColon(rest)
             IN  IF j = 0 THEN <<SubSeq(s, 1, i - 1), rest>>
                 ELSE <<SubSeq(s, 1, i - 1), SubSeq(rest, 1, j - 1),
                        SubSeq(rest, j + 1, Len(rest))>>

RECURSIVE DigitsValue(_)
DigitsValue(d) ==
    IF d = << >> THEN 0
    ELSE 10 * DigitsValue(SubSeq(d, 1, Len(d) - 1)) + (d[Len(d)] - Zero)

\* <isize as FromStr>::from_str: an optional sign and at least one digit
ParseIsize(s) ==
    LET signed == s # << >> /\ (s[1] = Minus \/ s[1] = Plus)
        digits == IF signed THEN Tail(s) ELSE s
    IN  IF digits = << >> \/ (\E i \in 1..Len(digits) : ~IsDigit(digits[i]))
        THEN Err(NotANumber(s))
        ELSE IF signed /\ s[1] = Minus THEN Ok(-DigitsValue(digits))
        ELSE Ok(DigitsValue(digits))

\* faulty variant: zero is let through
parse_allows_zero(s) ==
    IF s = << >> THEN Ok(None)
    ELSE LET num == ParseIsize(s)
         IN  IF ~num.ok THEN num ELSE Ok(Some(num.val))

\* the closure `parse` of from_str
parse(s) ==
    IF s = << >> THEN Ok(None)
    ELSE LET num == ParseIsize(s)
         IN  IF ~num.ok THEN num
             ELSE IF num.val = 0 THEN Err(ZeroNotAllowed)
             ELSE Ok(Some(num.val))

from_str(str) ==
    LET s == Trim(str)
        parts == Splitn3(s)
    IN  IF s = << >> THEN Err(EmptySelector)
        ELSE IF Len(parts) = 1 THEN
            LET line_num == parse(parts[1])
            IN  IF ~line_num.ok THEN line_num ELSE Ok(RawSingle(line_num.val.v))
        ELSE
            LET start == parse(parts[1])
                end == parse(parts[2])
                step == IF Len(parts) = 3 THEN parse(parts[3]) ELSE Ok(None)
            IN  IF ~start.ok THEN start
                ELSE IF ~end.ok THEN end
                ELSE IF ~step.ok THEN step
                ELSE IF Len(parts) = 2 THEN Ok(RawRange(start.val, end.val))
                ELSE Ok(RawRangeWithStep(start.val, end.val, step.val))

RECURSIVE ToDigits(_)
ToDigits(n) ==
    IF n < 10 THEN <<Zero + n>> ELSE ToDigits(n \div 10) \o <<Zero + (n % 10)>>

\* Display of isize
DisplayInt(n) == IF n < 0 THEN <<Minus>> \o ToDigits(-n) ELSE ToDigits(n)

DisplayOpt(o) == IF o.some THEN DisplayInt(o.v) ELSE << >>

\* faulty variant: the second ':' is written only before a step
Display_short(raw) ==
    IF raw.kind = "Single" THEN DisplayInt(raw.start.v)
    ELSE DisplayOpt(raw.start) \o <<Colon>> \o DisplayOpt(raw.end)
         \o (IF raw.step.some THEN <<Colon>> \o DisplayInt(raw.step.v) ELSE << >>)

\* impl Display for RawLineSelector
Display(raw) ==
    IF raw.kind = "Single" THEN DisplayInt(raw.start.v)
    ELSE IF raw.kind = "Range" THEN DisplayOpt(raw.start) \o <<Colon>> \o DisplayOpt(raw.end)
    ELSE DisplayOpt(raw.start) \o <<Colon>> \o DisplayOpt(raw.end) \o <<Colon>>
         \o DisplayOpt(raw.step)

(***************************************************************************)
(* Byte streams: BufRead::skip_until / read_until, and the LineReader.     *)
(***************************************************************************)
\* the offset after the line that starts at offset p: just after its newline, or
\* the end of the stream
LineEnd(bytes, p) ==
    IF \E q \in (p + 1)..Len(bytes) : bytes[q] = NL
    THEN CHOOSE q \in (p + 1)..Len(bytes) :
             bytes[q] = NL /\ \A j \in (p + 1)..(q - 1) : bytes[j] # NL
    ELSE Len(bytes)

RECURSIVE CountFrom(_, _)
\* while reader.skip_until(b'\n')? > 0 { n += 1 }, from offset p
CountFrom(bytes, p) ==
    IF p >= Len(bytes) THEN 0 ELSE 1 + CountFrom(bytes, LineEnd(bytes, p))

\* LineReader::new
NewReader == [pos |-> 0, current_line |-> 0]

\* faulty variant: current_line is advanced at end of input too
read_next_line_always_counts(bytes, rd) ==
    LET e == LineEnd(bytes, rd.pos)
    IN  [rd |-> [pos |-> e, current_line |-> rd.current_line + 1],
         buf |-> SubSeq(bytes, rd.pos + 1, e)]

\* faulty variant: the line is returned without its line feed
read_next_line_stripped(bytes, rd) ==
    LET e == LineEnd(bytes, rd.pos)
        buf == SubSeq(bytes, rd.pos + 1, e)
    IN  [rd |-> [pos |-> e,
                 current_line |-> IF e # rd.pos THEN rd.current_line + 1
                                  ELSE rd.current_line],
         buf |-> IF buf # << >> /\ buf[Len(buf)] = NL
                 THEN SubSeq(buf, 1, Len(buf) - 1) ELSE buf]

\* LineReader::read_next_line: the reader afterwards and the bytes appended to buf
read_next_line(bytes, rd) ==
    LET e == LineEnd(bytes, rd.pos)
    IN  [rd |-> [pos |-> e,
                 current_line |-> IF e # rd.pos THEN rd.current_line + 1
                                  ELSE rd.current_line],
         buf |-> SubSeq(bytes, rd.pos + 1, e)]

RECURSIVE SkipLoop(_, _, _, _)
\* while i < n && self.reader.skip_until(b'\n')? > 0 { i += 1 }
SkipLoop(bytes, p, i, n) ==
    IF ULess(i, n) /\ p < Len(bytes)
    THEN SkipLoop(bytes, LineEnd(bytes, p), i + 1, n)
    ELSE [pos |-> p, i |-> i]

\* faulty variant: the loop runs while i <= n
skip_lines_one_more(bytes, rd, n) ==
    LET r == SkipLoop(bytes, rd.pos, 0, n + 1)
    IN  [pos |-> r.pos, current_line |-> rd.current_line + r.i]

\* LineReader::skip_lines
skip_lines(bytes, rd, n) ==
    LET r == SkipLoop(bytes, rd.pos, 0, n)
    IN  [pos |-> r.pos, current_line |-> rd.current_line + r.i]

\* LineReader::read_specific_line: Ok([rd, buf]), or a panic of line_num - current_line
read_specific_line(bytes, rd, line_num) ==
    IF line_num # rd.current_line THEN
        LET n == USub(line_num, rd.current_line)
        IN  IF ~n.ok THEN n
            ELSE Ok(read_next_line(bytes, skip_lines(bytes, rd, n.val)))
    ELSE Ok(read_next_line(bytes, rd))

\* main.rs read_line
read_line(bytes, rd, line_num) == read_specific_line(bytes, rd, line_num)

(***************************************************************************)
(* Collaborators of main.                                                  *)
(***************************************************************************)
\* faulty variant: no content is reported as binary
is_binary_never(first_few_bytes) == FALSE

\* content_inspector::inspect(first_few_bytes).is_binary(): a NUL byte
is_binary(first_few_bytes) ==
    \E i \in 1..Len(first_few_bytes) : first_few_bytes[i] = NUL

\* "--- EMPTY FILE ---\n"
EmptyFileMessage ==
    <<Minus, Minus, Minus, Space, 69, 77, 80, 84, 89, Space, 70, 73, 76, 69, Space,
      Minus, Minus, Minus, NL>>

\* LineSelector::from_original: the normalised selector next to its original
from_original(original, n) ==
    LET parsed == from_raw(original.raw, n)
    IN  IF parsed.ok THEN Ok([original |-> original, parsed |-> parsed.val])
        ELSE parsed

(***************************************************************************)
(* The passes of main.                                                     *)
(***************************************************************************)
NoError == [selector |-> << >>, cause |-> NoErr]
BinaryFile == [kind |-> "BinaryFile", num |-> 0, n_lines |-> 0, text |-> << >>]

\* the exit of a failed fallible call: a panic, or an error returned by main
ExitOf(e) == IF e.kind = "Panic" THEN "panic" ELSE "error"

\* faulty variant: only the first result is looked at
FirstErr_head(rs) == IF rs # << >> /\ ~rs[1].ok THEN 1 ELSE 0

\* index of the first failed result of a sequence of results, 0 when all are Ok
FirstErr(rs) ==
    IF \E i \in 1..Len(rs) : ~rs[i].ok
    THEN CHOOSE i \in 1..Len(rs) : ~rs[i].ok /\ \A j \in 1..(i - 1) : rs[j].ok
    ELSE 0

\* the k-th (from 0) line number of the read pass for a selector:
\* (lower..=upper).step_by(|step|) or (upper..=lower).step_by(|step|)
ReadNum(sel, k) ==
    IF sel.kind = "Single" THEN sel.start
    ELSE IF sel.step > 0 THEN sel.start + k * Abs(sel.step)
    ELSE sel.end + k * Abs(sel.step)

\* whether the read pass has a k-th line number for the selector
HasReadNum(sel, k) ==
    IF sel.kind = "Single" THEN k = 0
    ELSE IF sel.step > 0 THEN ULessEq(ReadNum(sel, k), sel.end)
    ELSE ULessEq(ReadNum(sel, k), sel.start)

\* Cli::parse: every token of --line goes through RawLineSelector::from_str
ParseArgs ==
    /\ pc = "args"
    /\ LET rs == [i \in 1..Len(argv) |-> from_str(argv[i])]
           bad == FirstErr(rs)
       IN  IF bad # 0
           THEN /\ exit' = "usage"
                /\ error' = [selector |-> argv[bad], cause |-> rs[bad].err]
                /\ pc' = "done"
                /\ UNCHANGED original_line_selectors
           ELSE /\ original_line_selectors' =
                       [i \in 1..Len(argv) |-> [text |-> argv[i], raw |-> rs[i].val]]
                /\ pc' = "prefix"
                /\ UNCHANGED <<exit, error>>
    /\ UNCHANGED <<argv, file, plain, allow_binary_files, overflow_checks, n_lines, pos,
                   line_selectors, sorted_line_selectors, current_line, lines, sel_i,
                   num_i, out_i, curr, stdout, reads, lookups, norm_raw, norm_result,
                   parse_str, parse_result, lin_buf, last_call,
                   display_str, policy, headers, last_write>>

\* main.rs 22-54: the binary check and the lines of the first bytes
CountPrefix ==
    /\ pc = "prefix"
    /\ LET n == Min(PrefixLen, Len(file))
           first_few_bytes == SubSeq(file, 1, n)
       IN  IF allow_binary_files
           THEN /\ pc' = "count"
                /\ UNCHANGED <<n_lines, pos, stdout, exit, error>>
           ELSE IF n = 0
           THEN /\ stdout' = IF ~plain THEN stdout \o EmptyFileMessage ELSE stdout
                /\ exit' = "ok"
                /\ pc' = "done"
                /\ UNCHANGED <<n_lines, pos, error>>
           ELSE IF is_binary(first_few_bytes)
           THEN /\ exit' = "error"
                /\ error' = [selector |-> << >>, cause |-> BinaryFile]
                /\ pc' = "done"
                /\ pos' = n
                /\ UNCHANGED <<n_lines, stdout>>
           ELSE /\ n_lines' = n_lines + CountFrom(first_few_bytes, 0)
                /\ pos' = n
                /\ pc' = "count"
                /\ UNCHANGED <<stdout, exit, error>>
    /\ UNCHANGED <<argv, file, plain, allow_binary_files, overflow_checks,
                   original_line_selectors, line_selectors, sorted_line_selectors,
                   current_line, lines, sel_i, num_i, out_i, curr, reads, lookups,
                   norm_raw, norm_result,
                   parse_str, parse_result, lin_buf, last_call,
                   display_str, policy, headers, last_write>>

\* main.rs 55-61: the lines of the remainder of the file, then rewind
CountRemainder ==
    /\ pc = "count"
    /\ n_lines' = n_lines + CountFrom(file, pos)
    /\ pos' = 0
    /\ pc' = "normalise"
    /\ UNCHANGED <<argv, file, plain, allow_binary_files, overflow_checks,
                   original_line_selectors, line_selectors, sorted_line_selectors,
                   current_line, lines, sel_i, num_i, out_i, curr, stdout, exit, error,
                   reads, lookups, norm_raw, norm_result,
                   parse_str, parse_result, lin_buf, last_call,
                   display_str, policy, headers, last_write>>

\* main.rs 63-72: normalise every selector, stop at the first failure
ParseSelectors ==
    /\ pc = "normalise"
    /\ LET rs == [i \in 1..Len(original_line_selectors) |->
                      from_original(original_line_selectors[i], n_lines)]
           bad == FirstErr(rs)
       IN  IF bad # 0
           THEN /\ exit' = ExitOf(rs[bad].err)
                /\ error' = [selector |-> original_line_selectors[bad].text,
                             cause |-> rs[bad].err]
                /\ pc' = "done"
                /\ UNCHANGED line_selectors
           ELSE /\ line_selectors' = [i \in 1..Len(rs) |-> rs[i].val]
                /\ pc' = "sort"
                /\ UNCHANGED <<exit, error>>
    /\ UNCHANGED <<argv, file, plain, allow_binary_files, overflow_checks,
                   original_line_selectors, n_lines, pos, sorted_line_selectors,
                   current_line, lines, sel_i, num_i, out_i, curr, stdout, reads,
                   lookups, norm_raw, norm_result,
                   parse_str, parse_result, lin_buf, last_call,
                   display_str, policy, headers, last_write>>

\* the orders sort_unstable may leave: any permutation that is ascending under cmp
IsSortedBy(seq, perm) ==
    /\ \A i, j \in 1..Len(seq) : i # j => perm[i] # perm[j]
    /\ \A i \in 1..(Len(seq) - 1) :
           cmp(seq[perm[i]].parsed, seq[perm[i + 1]].parsed) # "Greater"

\* main.rs 74-81: the sorted copy, the LineReader and the empty cache
SortSelectors ==
    /\ pc = "sort"
    /\ \E perm \in [1..Len(line_selectors) -> 1..Len(line_selectors)] :
           /\ IsSortedBy(line_selectors, perm)
           /\ sorted_line_selectors' =
                  [i \in 1..Len(line_selectors) |-> line_selectors[perm[i]]]
    /\ current_line' = NewReader.current_line
    /\ pos' = NewReader.pos
    /\ sel_i' = 1
    /\ num_i' = 0
    /\ pc' = "read"
    /\ UNCHANGED <<argv, file, plain, allow_binary_files, overflow_checks,
                   original_line_selectors, n_lines, line_selectors, lines, out_i, curr,
                   stdout, exit, error, reads, lookups, norm_raw, norm_result,
                   parse_str, parse_result, lin_buf, last_call,
                   display_str, policy, headers, last_write>>

\* faulty variant: every entry is taken for vacant
IsVacant_always(cache, line_num) == TRUE

\* lines.entry(line_num) is Entry::Vacant
IsVacant(cache, line_num) == line_num \notin DOMAIN cache

\* the step of the read pass after line number num_i of selector sel_i
ReadAdvance ==
    IF HasReadNum(sorted_line_selectors[sel_i].parsed, num_i + 1)
    THEN /\ num_i' = num_i + 1
         /\ UNCHANGED <<sel_i, pc, out_i, curr>>
    ELSE IF sel_i < Len(sorted_line_selectors)
    THEN /\ sel_i' = sel_i + 1
         /\ num_i' = 0
         /\ UNCHANGED <<pc, out_i, curr>>
    ELSE /\ pc' = "print"
         /\ out_i' = 1
         /\ curr' = None
         /\ UNCHANGED <<sel_i, num_i>>

\* main.rs 82-105: one line number of the read pass
ReadStep ==
    /\ pc = "read"
    /\ num_i <= MaxLines + 1
    /\ LET line_num == ReadNum(sorted_line_selectors[sel_i].parsed, num_i)
           r == read_line(file, [pos |-> pos, current_line |-> current_line], line_num)
       IN  IF ~IsVacant(lines, line_num)
           THEN /\ ReadAdvance
                /\ UNCHANGED <<lines, pos, current_line, reads, exit>>
           ELSE /\ reads' = Append(reads, [line_num |-> line_num,
                                           current_line |-> current_line])
                /\ IF r.ok
                   THEN /\ lines' = lines @@ (line_num :> r.val.buf)
                        /\ pos' = r.val.rd.pos
                        /\ current_line' = r.val.rd.current_line
                        /\ ReadAdvance
                        /\ UNCHANGED exit
                   ELSE /\ exit' = "panic"
                        /\ pc' = "done"
                        /\ UNCHANGED <<lines, pos, current_line, sel_i, num_i, out_i, curr>>
    /\ UNCHANGED <<argv, file, plain, allow_binary_files, overflow_checks,
                   original_line_selectors, n_lines, line_selectors,
                   sorted_line_selectors, stdout, error, lookups, norm_raw, norm_result,
                   parse_str, parse_result, lin_buf, last_call,
                   display_str, policy, headers, last_write>>

\* the step of the output pass after the last line of selector out_i
NextSelector ==
    IF out_i < Len(line_selectors)
    THEN /\ out_i' = out_i + 1
         /\ curr' = None
         /\ UNCHANGED <<pc, exit>>
    ELSE /\ pc' = "done"
         /\ exit' = "ok"
         /\ UNCHANGED <<out_i, curr>>

\* the walk of a range after printing line c: curr += abs_step or curr -= abs_step,
\* then the loop condition
WalkOn(sel, c) ==
    LET abs_step == Abs(sel.step)
        down == USub(c, abs_step)
    IN  IF sel.step > 0
        THEN IF ULessEq(c + abs_step, sel.end)
             THEN /\ curr' = Some(c + abs_step)
                  /\ UNCHANGED <<out_i, pc, exit>>
             ELSE NextSelector
        ELSE IF ~down.ok
             THEN /\ exit' = "panic"
                  /\ pc' = "done"
                  /\ UNCHANGED <<out_i, curr>>
        ELSE IF ULessEq(sel.end, down.val)
             THEN /\ curr' = Some(down.val)
                  /\ UNCHANGED <<out_i, pc, exit>>
             ELSE NextSelector

\* a variant of the output pass that looks a line up through the entry of its key
\* and leaves a missing key in the cache
PrintStep_inserting ==
    /\ pc = "print"
    /\ LET ls == line_selectors[out_i]
           sel == ls.parsed
           c == IF curr.some THEN curr.v ELSE sel.start
           header == IF ~curr.some /\ ~plain THEN ls.original.text \o <<NL>> ELSE << >>
       IN  /\ lookups' = Append(lookups, c)
           /\ lines' = IF c \in DOMAIN lines THEN lines ELSE (c :> << >>) @@ lines
           /\ IF c \notin DOMAIN lines
              THEN /\ stdout' = stdout \o header
                   /\ exit' = "panic"
                   /\ pc' = "done"
                   /\ UNCHANGED <<out_i, curr>>
              ELSE /\ stdout' = stdout \o header \o lines[c]
                   /\ IF sel.kind = "Single" THEN NextSelector ELSE WalkOn(sel, c)
    /\ UNCHANGED <<argv, file, plain, allow_binary_files, overflow_checks,
                   original_line_selectors, n_lines, pos, line_selectors,
                   sorted_line_selectors, current_line, sel_i, num_i, error,
                   reads, norm_raw, norm_result,
                   parse_str, parse_result, lin_buf, last_call,
                   display_str, policy, headers, last_write>>

\* main.rs 108-132: one print_line of the output pass, after the header when the
\* line is the first of its selector
PrintStep ==
    /\ pc = "print"
    /\ LET ls == line_selectors[out_i]
           sel == ls.parsed
           c == IF curr.some THEN curr.v ELSE sel.start
           header == IF ~curr.some /\ ~plain THEN ls.original.text \o <<NL>> ELSE << >>
       IN  /\ lookups' = Append(lookups, c)
           /\ IF c \notin DOMAIN lines
              THEN /\ stdout' = stdout \o header
                   /\ exit' = "panic"
                   /\ pc' = "done"
                   /\ UNCHANGED <<out_i, curr>>
              ELSE /\ stdout' = stdout \o header \o lines[c]
                   /\ IF sel.kind = "Single" THEN NextSelector ELSE WalkOn(sel, c)
    /\ UNCHANGED <<argv, file, plain, allow_binary_files, overflow_checks,
                   original_line_selectors, n_lines, pos, line_selectors,
                   sorted_line_selectors, current_line, lines, sel_i, num_i, error,
                   reads, norm_raw, norm_result,
                   parse_str, parse_result, lin_buf, last_call,
                   display_str, policy, headers, last_write>>

(***************************************************************************)
(* The inputs of a run.                                                    *)
(***************************************************************************)
Repeat(b, k) == [i \in 1..k |-> b]

RECURSIVE MkFileFrom(_, _, _)
\* lines i.. of a file: line i is lens[i] bytes LetterO + i - 1 and a newline; the
\* last line has its newline when term
MkFileFrom(lens, term, i) ==
    IF i > Len(lens) THEN << >>
    ELSE Repeat(LetterO + i - 1, lens[i])
         \o (IF i < Len(lens) \/ term THEN <<NL>> ELSE << >>)
         \o MkFileFrom(lens, term, i + 1)

MkFile(lens, term) == MkFileFrom(lens, term, 1)

\* files of n one-byte lines, with and without the final newline; n = 0 is the
\* empty file
ShortFiles == { MkFile([i \in 1..n |-> 1], term) : n \in 0..MaxLines, term \in BOOLEAN }

\* files with a NUL byte among the first bytes
BinaryFiles == { <<NUL, LetterO, NL, LetterO + 1, NL>> }

\* files longer than the buffer of the binary check: a line that crosses the end of
\* the buffer, a line that ends exactly there
LongFiles ==
    { MkFile(<<PrefixLen + 1>>, FALSE),
      MkFile(<<1, PrefixLen>>, TRUE),
      MkFile(<<PrefixLen - 1, 1>>, FALSE) }

FullFiles == { MkFile([i \in 1..MaxLines |-> 1], term) : term \in BOOLEAN }

\* a file with one line more than the selectors of a list reach
LongerFiles == { MkFile([i \in 1..(MaxLines + 1) |-> 1], TRUE) }

\* bounds and steps of the selectors of a one-selector run
RunBounds == {None} \cup { Some(k) : k \in (0..(MaxLines + 1)) \cup {-1} }
RunSteps == { Some(k) : k \in ((1 - MaxLines)..(MaxLines - 1)) \ {0} }

RunRaw ==
    { RawSingle(b.v) : b \in RunBounds \ {None} }
    \cup { RawRange(s, e) : s \in RunBounds, e \in RunBounds }
    \cup { RawRangeWithStep(s, e, st) : s \in RunBounds, e \in RunBounds, st \in RunSteps }

\* the tokens of a one-selector run: every selector of RunRaw as displayed, the
\* empty token and a token that is no number
RunTokens == { Display(raw) : raw \in RunRaw } \cup { << >>, <<LetterO>> }

\* the selectors of a run with several selectors: single lines, ranges and
\* stepped ranges, in both directions, within a file of MaxLines lines
ListRaw ==
    { RawSingle(k) : k \in 1..MaxLines }
    \cup { RawRange(Some(s), Some(e)) : s \in 1..MaxLines, e \in 1..MaxLines }
    \cup { RawRangeWithStep(Some(s), Some(e), Some(st)) :
             s \in 1..MaxLines, e \in 1..MaxLines,
             st \in ((1 - MaxLines)..(MaxLines - 1)) \ {0, 1} }

\* raw is valid for a file of MaxLines lines and written with its own bounds: a
\* range whose normal form is a Range with the end that was typed
IsTight(raw) ==
    LET r == from_raw(raw, MaxLines)
    IN  /\ r.ok
        /\ raw.kind # "Single" => (r.val.kind = "Range" /\ r.val.end = raw.end.v - 1)

ListTokens == { Display(raw) : raw \in { r \in ListRaw : IsTight(r) } }

TokenLists == UNION { [1..k -> ListTokens] : k \in 2..MaxSelectors }

\* tokens that parse and that normalisation rejects for a file of MaxLines lines:
\* a line beyond the file, a range in the wrong direction
RejectedTokens ==
    { Display(RawSingle(MaxLines + 1)), Display(RawRange(Some(2), Some(1))) }

\* lists of two selectors of which one is rejected by normalisation
MixedLists ==
    { <<t, b>> : t \in ListTokens, b \in RejectedTokens }
    \cup { <<b, t>> : t \in ListTokens, b \in RejectedTokens }

\* no call on the LineReader yet
NoCall == [op |-> "none", arg |-> 0, before |-> NewReader, buf_before |-> << >>]

\* the state of main before Cli::parse
\* no call on the OutputWriter yet
NoWrite == [op |-> "none", line |-> << >>, before |-> << >>, n |-> 0]

InitRun ==
    /\ pos = 0
    /\ original_line_selectors = << >>
    /\ line_selectors = << >>
    /\ sorted_line_selectors = << >>
    /\ current_line = 0
    /\ lines = << >>
    /\ sel_i = 0
    /\ num_i = 0
    /\ out_i = 0
    /\ curr = None
    /\ stdout = << >>
    /\ exit = "running"
    /\ error = NoError
    /\ reads = << >>
    /\ lookups = << >>
    /\ parse_result = Err(NoErr)
    /\ lin_buf = << >>
    /\ last_call = NoCall
    /\ display_str = << >>
    /\ headers = 0
    /\ last_write = NoWrite

Init ==
    /\ InitRun
    /\ policy = "none"
    /\ pc = "args"
    /\ n_lines = 0
    /\ norm_raw = RawSingle(1)
    /\ norm_result = Err(NoErr)
    /\ parse_str = << >>
    /\ plain \in BOOLEAN
    /\ overflow_checks \in BOOLEAN
    /\ \/ /\ file \in ShortFiles \cup BinaryFiles \cup LongFiles
          /\ allow_binary_files \in BOOLEAN
          /\ argv \in { <<t>> : t \in RunTokens }
       \/ /\ file \in FullFiles
          /\ allow_binary_files = FALSE
          /\ argv \in TokenLists \cup MixedLists
       \/ /\ file \in LongerFiles
          /\ allow_binary_files = FALSE
          /\ argv \in TokenLists

Next ==
    \/ ParseArgs
    \/ CountPrefix
    \/ CountRemainder
    \/ ParseSelectors
    \/ SortSelectors
    \/ ReadStep
    \/ PrintStep

Spec == Init /\ [][Next]_vars

(***************************************************************************)
(* from_raw applied on its own, to every raw selector from_str can return. *)
(***************************************************************************)
NormBounds == {None} \cup { Some(k) : k \in (-(MaxN + 1)..(MaxN + 1)) \ {0} }
NormSteps == {None} \cup { Some(k) : k \in (-MaxStep..MaxStep) \ {0} }

NormRaw ==
    { RawSingle(b.v) : b \in NormBounds \ {None} }
    \cup { RawRange(s, e) : s \in NormBounds, e \in NormBounds }
    \cup { RawRangeWithStep(s, e, st) : s \in NormBounds, e \in NormBounds, st \in NormSteps }

InitNorm ==
    /\ InitRun
    /\ policy = "none"
    /\ pc = "norm"
    /\ argv = << >>
    /\ file = << >>
    /\ plain = FALSE
    /\ allow_binary_files = FALSE
    /\ overflow_checks \in BOOLEAN
    /\ n_lines \in 0..MaxN
    /\ norm_raw \in NormRaw
    /\ norm_result = Err(NoErr)
    /\ parse_str = << >>

Normalise ==
    /\ pc = "norm"
    /\ norm_result' = from_raw(norm_raw, n_lines)
    /\ pc' = "normed"
    /\ UNCHANGED <<argv, file, plain, allow_binary_files, overflow_checks,
                   original_line_selectors, n_lines, pos, line_selectors,
                   sorted_line_selectors, current_line, lines, sel_i, num_i, out_i, curr,
                   stdout, exit, error, reads, lookups, norm_raw,
                   parse_str, parse_result, lin_buf, last_call,
                   display_str, policy, headers, last_write>>

NextNorm == Normalise

SpecNorm == InitNorm /\ [][NextNorm]_vars

(***************************************************************************)
(* RawLineSelector::from_str on its own: one call on one token.            *)
(***************************************************************************)
\* the bytes tokens are made of: digits, signs, the separator, a blank, a letter
TokenBytes == {Zero, Zero + 1, Minus, Plus, Colon, Space, LetterO}

ParseTokens == UNION { [1..k -> TokenBytes] : k \in 0..MaxTokenLen }

InitParse ==
    /\ InitRun
    /\ policy = "none"
    /\ pc = "parse"
    /\ argv = << >>
    /\ file = << >>
    /\ plain = FALSE
    /\ allow_binary_files = FALSE
    /\ overflow_checks = FALSE
    /\ n_lines = 0
    /\ norm_raw = RawSingle(1)
    /\ norm_result = Err(NoErr)
    /\ parse_str \in ParseTokens

Parse ==
    /\ pc = "parse"
    /\ parse_result' = from_str(parse_str)
    /\ pc' = "parsed"
    /\ UNCHANGED <<argv, file, plain, allow_binary_files, overflow_checks,
                   original_line_selectors, n_lines, pos, line_selectors,
                   sorted_line_selectors, current_line, lines, sel_i, num_i, out_i, curr,
                   stdout, exit, error, reads, lookups, norm_raw, norm_result,
                   parse_str, lin_buf, last_call,
                   display_str, policy, headers, last_write>>

NextParse == Parse

SpecParse == InitParse /\ [][NextParse]_vars

(***************************************************************************)
(* to_string and from_str one after the other: a RawLineSelector is        *)
(* formatted and the text parsed; a token is parsed and the result         *)
(* formatted.                                                              *)
(***************************************************************************)
MaxShown == 12

ShowBounds == {None} \cup { Some(k) : k \in (-MaxShown..MaxShown) \ {0} }

\* the raw selectors with non-zero components
ShowRaw ==
    { RawSingle(b.v) : b \in ShowBounds \ {None} }
    \cup { RawRange(a, b) : a \in ShowBounds, b \in ShowBounds }
    \cup { RawRangeWithStep(a, b, c) : a \in ShowBounds, b \in ShowBounds, c \in ShowBounds }

InitShow ==
    /\ InitRun
    /\ policy = "none"
    /\ argv = << >>
    /\ file = << >>
    /\ plain = FALSE
    /\ allow_binary_files = FALSE
    /\ overflow_checks = FALSE
    /\ n_lines = 0
    /\ norm_result = Err(NoErr)
    /\ \/ /\ pc = "show"
          /\ norm_raw \in ShowRaw
          /\ parse_str = << >>
       \/ /\ pc = "parse"
          /\ norm_raw = RawSingle(1)
          /\ parse_str \in ParseTokens

\* norm_raw.to_string()
ToStringRaw ==
    /\ pc = "show"
    /\ display_str' = Display(norm_raw)
    /\ pc' = "reparse"
    /\ UNCHANGED <<argv, file, plain, allow_binary_files, overflow_checks,
                   original_line_selectors, n_lines, pos, line_selectors,
                   sorted_line_selectors, current_line, lines, sel_i, num_i, out_i, curr,
                   stdout, exit, error, reads, lookups, norm_raw, norm_result,
                   parse_str, parse_result, lin_buf, last_call,
                   policy, headers, last_write>>

\* RawLineSelector::from_str on the text just formatted
Reparse ==
    /\ pc = "reparse"
    /\ parse_str' = display_str
    /\ parse_result' = from_str(display_str)
    /\ pc' = "reparsed"
    /\ UNCHANGED <<argv, file, plain, allow_binary_files, overflow_checks,
                   original_line_selectors, n_lines, pos, line_selectors,
                   sorted_line_selectors, current_line, lines, sel_i, num_i, out_i, curr,
                   stdout, exit, error, reads, lookups, norm_raw, norm_result,
                   lin_buf, last_call, display_str, policy, headers, last_write>>

\* to_string on the selector just parsed
ToStringParsed ==
    /\ pc = "parsed"
    /\ parse_result.ok
    /\ display_str' = Display(parse_result.val)
    /\ pc' = "shown"
    /\ UNCHANGED <<argv, file, plain, allow_binary_files, overflow_checks,
                   original_line_selectors, n_lines, pos, line_selectors,
                   sorted_line_selectors, current_line, lines, sel_i, num_i, out_i, curr,
                   stdout, exit, error, reads, lookups, norm_raw, norm_result,
                   parse_str, parse_result, lin_buf, last_call,
                   policy, headers, last_write>>

NextShow ==
    \/ ToStringRaw
    \/ Reparse
    \/ Parse
    \/ ToStringParsed

SpecShow == InitShow /\ [][NextShow]_vars

(***************************************************************************)
(* The LineReader on its own: any sequence of calls on one byte stream.    *)
(***************************************************************************)
\* byte streams: two letters and the line feed
ReaderStreams ==
    UNION { [1..k -> {LetterO, LetterO + 1, NL}] : k \in 0..MaxStreamLen }

\* the buffers a caller hands over: a fresh one, one that holds bytes already
CallerBuffers == { << >>, <<Space>> }

\* line numbers and counts of the calls: up to two past the lines of a stream
ReaderArgs == 0..(MaxStreamLen + 2)

InitReader ==
    /\ InitRun
    /\ policy = "none"
    /\ pc = "reader"
    /\ argv = << >>
    /\ plain = FALSE
    /\ allow_binary_files = FALSE
    /\ overflow_checks \in BOOLEAN
    /\ n_lines = 0
    /\ norm_raw = RawSingle(1)
    /\ norm_result = Err(NoErr)
    /\ parse_str = << >>
    /\ file \in ReaderStreams

\* what a call leaves unchanged
ReaderFrame ==
    UNCHANGED <<argv, file, plain, allow_binary_files, overflow_checks,
                original_line_selectors, n_lines, line_selectors,
                sorted_line_selectors, lines, sel_i, num_i, out_i, curr, stdout,
                error, reads, lookups, norm_raw, norm_result, parse_str,
                parse_result, display_str, policy, headers, last_write>>

\* the record of a call
Call(op, arg, b) ==
    [op |-> op, arg |-> arg, before |-> [pos |-> pos, current_line |-> current_line],
     buf_before |-> b]

\* LineReader::read_next_line(buf)
ReadNextLine ==
    /\ pc = "reader"
    /\ \E b \in CallerBuffers :
           LET r == read_next_line(file, [pos |-> pos, current_line |-> current_line])
           IN  /\ lin_buf' = b \o r.buf
               /\ pos' = r.rd.pos
               /\ current_line' = r.rd.current_line
               /\ last_call' = Call("read_next_line", 0, b)
    /\ UNCHANGED <<pc, exit>>
    /\ ReaderFrame

\* LineReader::skip_lines(n)
SkipLines ==
    /\ pc = "reader"
    /\ \E n \in ReaderArgs :
           LET rd == skip_lines(file, [pos |-> pos, current_line |-> current_line], n)
           IN  /\ pos' = rd.pos
               /\ current_line' = rd.current_line
               /\ last_call' = Call("skip_lines", n, lin_buf)
    /\ UNCHANGED <<pc, exit, lin_buf>>
    /\ ReaderFrame

\* LineReader::read_specific_line(buf, line_num)
ReadSpecificLine ==
    /\ pc = "reader"
    /\ \E b \in CallerBuffers, line_num \in ReaderArgs :
           LET r == read_specific_line(file, [pos |-> pos, current_line |-> current_line],
                                       line_num)
           IN  /\ last_call' = Call("read_specific_line", line_num, b)
               /\ IF r.ok
                  THEN /\ lin_buf' = b \o r.val.buf
                       /\ pos' = r.val.rd.pos
                       /\ current_line' = r.val.rd.current_line
                       /\ UNCHANGED <<pc, exit>>
                  ELSE /\ lin_buf' = b
                       /\ exit' = "panic"
                       /\ pc' = "done"
                       /\ UNCHANGED <<pos, current_line>>
    /\ ReaderFrame

NextReader ==
    \/ ReadNextLine
    \/ SkipLines
    \/ ReadSpecificLine

SpecReader == InitReader /\ [][NextReader]_vars

(***************************************************************************)
(* The output writers: output.rs and output/*.rs.  A writer appends bytes  *)
(* to its sink W.                                                          *)
(***************************************************************************)
RED == <<27, 91, 51, 49, 109>>
GREEN_BOLD == <<27, 91, 51, 50, 59, 49, 109>>
BOLD == <<27, 91, 49, 109>>
CLEAR == <<27, 91, 48, 109>>
BLUE_BOLD == <<27, 91, 51, 54, 59, 49, 109>>

\* Line::Context { line_num, line } and Line::Selected { line_num, line }
Context(line_num, line) == [kind |-> "Context", line_num |-> line_num, line |-> line]
Selected(line_num, line) == [kind |-> "Selected", line_num |-> line_num, line |-> line]

\* "Line" and "Lines"
LineWord == <<76, 105, 110, 101>>
LinesWord == LineWord \o <<115>>

\* {:?} of a ParsedLineSelector (derived Debug)
DebugParsed(sel) ==
    IF sel.kind = "Single"
    THEN <<83, 105, 110, 103, 108, 101, 40>> \o DisplayInt(sel.start) \o <<41>>
    ELSE <<82, 97, 110, 103, 101, 40>> \o DisplayInt(sel.start) \o <<44, Space>>
         \o DisplayInt(sel.end) \o <<44, Space>> \o DisplayInt(sel.step) \o <<41>>

\* output.rs: PlainOutputWriter
PlainOutputWriter_print_line(line) == line.line

PlainOutputWriter_print_line_selector_header(line_selector) == << >>

\* output.rs: NotColoredOutputWriter
NotColoredOutputWriter_print_line(line) ==
    DisplayInt(line.line_num + 1) \o <<Colon, Space>> \o line.line

NotColoredOutputWriter_print_line_selector_header(line_selector) ==
    <<NL>> \o LineWord \o <<Colon, Space>> \o DebugParsed(line_selector.parsed) \o <<NL>>

\* output.rs: ColoredOutputWriter
ColoredOutputWriter_print_line(line) ==
    IF line.kind = "Context"
    THEN BOLD \o DisplayInt(line.line_num + 1) \o <<Colon>> \o CLEAR \o <<Space>> \o line.line
    ELSE GREEN_BOLD \o DisplayInt(line.line_num + 1) \o <<Colon>> \o CLEAR \o <<Space>>
         \o RED \o line.line \o CLEAR

ColoredOutputWriter_print_line_selector_header(line_selector) ==
    <<NL>> \o BLUE_BOLD \o LineWord \o <<Colon, Space>>
    \o DebugParsed(line_selector.parsed) \o CLEAR \o <<NL>>

\* output/not_colored_not_decorated.rs
not_colored_not_decorated_print_line(line) == line.line

not_colored_not_decorated_print_line_selector_header(line_selector) == << >>

\* output/colored_and_not_decorated.rs
colored_and_not_decorated_print_line(line) ==
    IF line.kind = "Context" THEN line.line ELSE RED \o line.line \o CLEAR

colored_and_not_decorated_print_line_selector_header(line_selector) == << >>

\* the prefix of a header in output/*.rs
HeaderPrefix(raw) == IF raw.kind = "Single" THEN LineWord ELSE LinesWord

\* output/not_colored_decorated.rs
not_colored_decorated_print_line(line) ==
    DisplayInt(line.line_num + 1) \o <<Colon, Space>> \o line.line

not_colored_decorated_print_line_selector_header(line_selector, first_line) ==
    (IF ~first_line THEN <<NL>> ELSE << >>)
    \o HeaderPrefix(line_selector.raw) \o <<Colon, Space>> \o Display(line_selector.raw)
    \o <<NL>>

\* faulty variant: the line is written without its line feed
colored_and_decorated_print_line_trimmed(line) ==
    LET text == IF line.line # << >> /\ line.line[Len(line.line)] = NL
                THEN SubSeq(line.line, 1, Len(line.line) - 1) ELSE line.line
    IN  IF line.kind = "Context"
        THEN BOLD \o DisplayInt(line.line_num + 1) \o <<Colon>> \o CLEAR \o <<Space>> \o text
        ELSE GREEN_BOLD \o DisplayInt(line.line_num + 1) \o <<Colon>> \o CLEAR \o <<Space>>
             \o RED \o text \o CLEAR

\* output/colored_and_decorated.rs
colored_and_decorated_print_line(line) ==
    IF line.kind = "Context"
    THEN BOLD \o DisplayInt(line.line_num + 1) \o <<Colon>> \o CLEAR \o <<Space>> \o line.line
    ELSE GREEN_BOLD \o DisplayInt(line.line_num + 1) \o <<Colon>> \o CLEAR \o <<Space>>
         \o RED \o line.line \o CLEAR

colored_and_decorated_print_line_selector_header(line_selector, first_line) ==
    (IF ~first_line THEN <<NL>> ELSE << >>)
    \o BLUE_BOLD \o HeaderPrefix(line_selector.raw) \o <<Colon, Space>>
    \o Display(line_selector.raw) \o CLEAR \o <<NL>>

\* the implementations of OutputWriter
Writers ==
    { "PlainOutputWriter", "NotColoredOutputWriter", "ColoredOutputWriter",
      "not_colored_not_decorated", "colored_and_not_decorated",
      "not_colored_decorated", "colored_and_decorated" }

\* OutputWriter::print_line, dispatched on the implementation
print_line(w, line) ==
    CASE w = "PlainOutputWriter" -> PlainOutputWriter_print_line(line)
      [] w = "NotColoredOutputWriter" -> NotColoredOutputWriter_print_line(line)
      [] w = "ColoredOutputWriter" -> ColoredOutputWriter_print_line(line)
      [] w = "not_colored_not_decorated" -> not_colored_not_decorated_print_line(line)
      [] w = "colored_and_not_decorated" -> colored_and_not_decorated_print_line(line)
      [] w = "not_colored_decorated" -> not_colored_decorated_print_line(line)
      [] w = "colored_and_decorated" -> colored_and_decorated_print_line(line)

\* OutputWriter::print_line_selector_header, dispatched on the implementation;
\* only the decorated writers of output/ take first_line
print_line_selector_header(w, line_selector, first_line) ==
    CASE w = "PlainOutputWriter" -> PlainOutputWriter_print_line_selector_header(line_selector)
      [] w = "NotColoredOutputWriter" ->
             NotColoredOutputWriter_print_line_selector_header(line_selector)
      [] w = "ColoredOutputWriter" ->
             ColoredOutputWriter_print_line_selector_header(line_selector)
      [] w = "not_colored_not_decorated" ->
             not_colored_not_decorated_print_line_selector_header(line_selector)
      [] w = "colored_and_not_decorated" ->
             colored_and_not_decorated_print_line_selector_header(line_selector)
      [] w = "not_colored_decorated" ->
             not_colored_decorated_print_line_selector_header(line_selector, first_line)
      [] w = "colored_and_decorated" ->
             colored_and_decorated_print_line_selector_header(line_selector, first_line)

(***************************************************************************)
(* A writer on its own: any sequence of headers and lines on one sink.     *)
(***************************************************************************)
MaxWrites == 3
MaxLineNum == 9

\* the selectors a header is asked for
HeaderSelectors ==
    { [raw |-> RawSingle(-1), parsed |-> Single(MaxLineNum)],
      [raw |-> RawRangeWithStep(Some(1), None, Some(2)), parsed |-> Range(0, 8, 2)] }

\* the bytes of a line: text with and without its line feed, text that looks
\* like a number prefix, a lone line feed
LineBytes ==
    { <<LetterO, NL>>, <<LetterO>>, <<Zero + 1, Colon, Space, LetterO, NL>>, <<NL>> }

WriterLines ==
    { Context(n, b) : n \in {0, MaxLineNum}, b \in LineBytes }
    \cup { Selected(n, b) : n \in {0, MaxLineNum}, b \in LineBytes }

InitWriter ==
    /\ InitRun
    /\ pc = "writer"
    /\ argv = << >>
    /\ file = << >>
    /\ plain = FALSE
    /\ allow_binary_files = FALSE
    /\ overflow_checks = FALSE
    /\ n_lines = 0
    /\ norm_raw = RawSingle(1)
    /\ norm_result = Err(NoErr)
    /\ parse_str = << >>
    /\ policy \in Writers

WriterFrame ==
    UNCHANGED <<argv, file, plain, allow_binary_files, overflow_checks, pc,
                original_line_selectors, n_lines, pos, line_selectors,
                sorted_line_selectors, current_line, lines, sel_i, num_i, out_i, curr,
                exit, error, reads, lookups, norm_raw, norm_result,
                parse_str, parse_result, lin_buf, last_call, display_str, policy>>

\* the caller's first_line: no header was asked for before this one
FirstLine == headers = 0

\* a call of print_line_selector_header
PrintLineSelectorHeader ==
    /\ pc = "writer"
    /\ last_write.n < MaxWrites
    /\ \E sel \in HeaderSelectors :
           /\ stdout' = stdout \o print_line_selector_header(policy, sel, FirstLine)
           /\ last_write' = [op |-> "print_line_selector_header", line |-> sel,
                             before |-> stdout, n |-> last_write.n + 1]
    /\ headers' = headers + 1
    /\ WriterFrame

\* a call of print_line
PrintLine ==
    /\ pc = "writer"
    /\ last_write.n < MaxWrites
    /\ \E line \in WriterLines :
           /\ stdout' = stdout \o print_line(policy, line)
           /\ last_write' = [op |-> "print_line", line |-> line,
                             before |-> stdout, n |-> last_write.n + 1]
    /\ UNCHANGED headers
    /\ WriterFrame

NextWriter ==
    \/ PrintLineSelectorHeader
    \/ PrintLine

SpecWriter == InitWriter /\ [][NextWriter]_vars

(***************************************************************************)
(* The file as the claims speak of it: its physical lines.                 *)
(***************************************************************************)
NewlinesOf(bytes) == { i \in 1..Len(bytes) : bytes[i] = NL }

\* the offset of the k-th newline (k >= 1) of bytes
NthNewline(bytes, k) ==
    CHOOSE i \in NewlinesOf(bytes) : Cardinality({ j \in NewlinesOf(bytes) : j <= i }) = k

\* the number of newline-terminated chunks, plus one for a final unterminated chunk
NumPhysLines(bytes) ==
    Cardinality(NewlinesOf(bytes))
    + (IF bytes # << >> /\ bytes[Len(bytes)] # NL THEN 1 ELSE 0)

\* the bytes of physical line k (from 0), through its newline when it has one
PhysLine(bytes, k) ==
    IF k < 0 \/ k >= NumPhysLines(bytes) THEN << >>
    ELSE SubSeq(bytes,
                IF k = 0 THEN 1 ELSE NthNewline(bytes, k) + 1,
                IF k < Cardinality(NewlinesOf(bytes)) THEN NthNewline(bytes, k + 1)
                ELSE Len(bytes))

RECURSIVE ConcatLines(_, _)
\* the bytes of the physical lines nums[1], nums[2], ... one after the other
ConcatLines(bytes, nums) ==
    IF nums = << >> THEN << >>
    ELSE PhysLine(bytes, Head(nums)) \o ConcatLines(bytes, Tail(nums))

\* the run is not stopped by the binary check
PassesBinaryCheck ==
    allow_binary_files \/ ~is_binary(SubSeq(file, 1, Min(PrefixLen, Len(file))))

\* the run was started with the one selector raw
OnlySelector(raw) ==
    /\ Len(original_line_selectors) = 1
    /\ original_line_selectors[1].raw = raw

(***************************************************************************)
(* C1 (as claimed): the line numbers passed to read_specific_line during   *)
(* the read pass are strictly ascending, and every call has                *)
(* line_num >= current_line.                                               *)
(***************************************************************************)
C1_ReadsAscend ==
    \A i \in 1..Len(reads) :
        /\ reads[i].current_line <= reads[i].line_num
        /\ i > 1 => reads[i - 1].line_num < reads[i].line_num

(***************************************************************************)
(* C2: a run in plain mode with the single selector k, 1 <= k <= number of *)
(* physical lines, on a file the binary check lets through, exits          *)
(* successfully and has written exactly the bytes of physical line k.      *)
(***************************************************************************)
C2_SingleLineRoundTrip ==
    \A k \in 1..(MaxLines + 1) :
        (/\ pc = "done"
         /\ plain
         /\ PassesBinaryCheck
         /\ argv = <<DisplayInt(k)>>
         /\ k <= NumPhysLines(file))
        => (exit = "ok" /\ stdout = PhysLine(file, k - 1))

C2_Witness ==
    /\ pc = "done"
    /\ plain
    /\ exit = "ok"
    /\ file = <<LetterO, NL, LetterO + 1, NL, LetterO + 2>>
    /\ OnlySelector(RawSingle(3))
    /\ stdout = <<LetterO + 2>>

(***************************************************************************)
(* C3: in the read pass read_specific_line is called at most once per line *)
(* number, and every line number read is a key of the cache afterwards.    *)
(***************************************************************************)
C3_ReadAtMostOnce ==
    /\ \A i, j \in 1..Len(reads) : i # j => reads[i].line_num # reads[j].line_num
    /\ \A i \in 1..Len(reads) :
           reads[i].line_num \in DOMAIN lines \/ (i = Len(reads) /\ exit = "panic")

C3_Witness ==
    /\ pc = "done"
    /\ exit = "ok"
    /\ Len(line_selectors) = 2
    /\ line_selectors[1].parsed = Range(0, 2, 1)
    /\ line_selectors[2].parsed = Single(1)
    /\ Len(reads) = 3
    /\ lookups = <<0, 1, 2, 1>>

\* the line numbers a normalised selector stands for, in its own direction
Walk(sel) ==
    IF sel.kind = "Single" THEN <<sel.start>>
    ELSE [i \in 1..((Abs(sel.end - sel.start) \div Abs(sel.step)) + 1) |->
              IF sel.step > 0 THEN sel.start + (i - 1) * Abs(sel.step)
              ELSE sel.start - (i - 1) * Abs(sel.step)]

RECURSIVE AllWalks(_)
\* the walks of the selectors of a list, one after the other
AllWalks(sels) ==
    IF sels = << >> THEN << >>
    ELSE Walk(Head(sels).parsed) \o AllWalks(Tail(sels))

(***************************************************************************)
(* C4 (as claimed): when every selector is valid, the output of a plain    *)
(* run is the concatenation, selector by selector in the order given, of   *)
(* the lines of each selector in its own direction, a line being emitted   *)
(* as often as it is requested.                                            *)
(***************************************************************************)
C4_OutputInRequestOrder ==
    (pc = "done" /\ plain /\ line_selectors # << >>)
    => stdout = ConcatLines(file, AllWalks(line_selectors))

(***************************************************************************)
(* C5 (as claimed): after the counting pass n_lines is the number of       *)
(* physical lines of the file.                                             *)
(***************************************************************************)
C5_CountsPhysicalLines ==
    pc \in {"normalise", "sort", "read", "print"} => n_lines = NumPhysLines(file)

(***************************************************************************)
(* C6 (as claimed): a run whose one selector is a valid range with a       *)
(* negative step emits start, start-|step|, ..., the tightened end, each   *)
(* once and in that order, and then completes successfully.                *)
(***************************************************************************)
C6_NegativeStepWalkCompletes ==
    (/\ pc = "done"
     /\ Len(line_selectors) = 1
     /\ line_selectors[1].parsed.kind = "Range"
     /\ line_selectors[1].parsed.step < 0)
    => (exit = "ok" /\ lookups = Walk(line_selectors[1].parsed))

(***************************************************************************)
(* C8 (as claimed): on a file with n >= 1 physical lines that the binary   *)
(* check lets through, the selector ':' normalises to Range(0, n-1, 1), or *)
(* to Single(0) when n = 1, the run succeeds, and in plain mode the output *)
(* is the file: every physical line once, in file order.                   *)
(***************************************************************************)
C8_UnboundedRangeIsWholeFile ==
    (/\ pc = "done"
     /\ OnlySelector(RawRange(None, None))
     /\ NumPhysLines(file) >= 1
     /\ PassesBinaryCheck)
    => /\ exit = "ok"
       /\ line_selectors[1].parsed =
              IF NumPhysLines(file) = 1 THEN Single(0)
              ELSE Range(0, NumPhysLines(file) - 1, 1)
       /\ plain => stdout = file

(***************************************************************************)
(* The conversion rule as the specification states it.                     *)
(***************************************************************************)
\* a one-based bound k of a file of n lines as a zero-based line
Conv(k, n) == IF k < 0 THEN n + k ELSE k - 1

ConvStart(raw, n) == IF raw.start.some THEN Conv(raw.start.v, n) ELSE 0
ConvEnd(raw, n) == IF raw.end.some THEN Conv(raw.end.v, n) ELSE n - 1
StepOf(raw) == IF raw.step.some THEN raw.step.v ELSE 1

\* the bounds that are present in a raw selector
BoundsOfRaw(raw) ==
    { b.v : b \in { x \in {raw.start, raw.end} : x.some } }

\* every bound of raw lies within the file and start and end are in the order of
\* the step
IsValidRaw(raw, n) ==
    /\ \A k \in BoundsOfRaw(raw) : Abs(k) <= n
    /\ StepOf(raw) > 0 => ConvStart(raw, n) <= ConvEnd(raw, n)
    /\ StepOf(raw) < 0 => ConvStart(raw, n) >= ConvEnd(raw, n)

(***************************************************************************)
(* C7: for n_lines >= 1 and 1 <= k <= n_lines, the selectors -k and        *)
(* n_lines-k+1 normalise to the same value, Single(n_lines-k); so -1       *)
(* normalises as n_lines does and -n_lines as 1 does.                      *)
(***************************************************************************)
C7_NegativeIndexEquivalence ==
    \A k \in 1..MaxN :
        (/\ pc = "normed"
         /\ k <= n_lines
         /\ norm_raw = RawSingle(-k))
        => /\ norm_result.ok
           /\ norm_result.val = Single(n_lines - k)
           /\ from_raw(RawSingle(n_lines - k + 1), n_lines).ok
           /\ from_raw(RawSingle(n_lines - k + 1), n_lines).val = norm_result.val

C7_Witness ==
    /\ pc = "normed"
    /\ n_lines = 3
    /\ norm_raw = RawSingle(-3)
    /\ norm_result.ok
    /\ norm_result.val = Single(0)

(***************************************************************************)
(* C9: for a valid start:end:step whose converted start and end differ,    *)
(* from_raw returns Range(start, end', step) with                          *)
(* end' = start +/- floor(|end-start| / |step|) * |step| in the direction  *)
(* of the step: end' lies between start and end, differs from start by a   *)
(* multiple of |step| and is less than |step| away from end.               *)
(***************************************************************************)
C9_TightenedEnd ==
    (/\ pc = "normed"
     /\ n_lines >= 1
     /\ norm_raw.kind = "RangeWithStep"
     /\ IsValidRaw(norm_raw, n_lines)
     /\ ConvStart(norm_raw, n_lines) # ConvEnd(norm_raw, n_lines))
    => LET s == ConvStart(norm_raw, n_lines)
           e == ConvEnd(norm_raw, n_lines)
           st == StepOf(norm_raw)
           r == norm_result.val
       IN  /\ norm_result.ok
           /\ r.kind = "Range"
           /\ r.start = s
           /\ r.step = st
           /\ r.end = IF st > 0 THEN s + (Abs(e - s) \div Abs(st)) * Abs(st)
                      ELSE s - (Abs(e - s) \div Abs(st)) * Abs(st)
           /\ st > 0 => (s <= r.end /\ r.end <= e)
           /\ st < 0 => (e <= r.end /\ r.end <= s)
           /\ Abs(r.end - s) % Abs(st) = 0
           /\ Abs(e - r.end) < Abs(st)

C9_Witness ==
    /\ pc = "normed"
    /\ n_lines = 5
    /\ norm_raw = RawRangeWithStep(Some(-1), Some(2), Some(-2))
    /\ norm_result.ok
    /\ norm_result.val = Range(4, 2, -2)

(***************************************************************************)
(* The numbers a token of --line is made of.                               *)
(***************************************************************************)
\* every non-empty part of the token is an integer
IsNumericToken(t) ==
    LET parts == Splitn3(Trim(t))
    IN  /\ Trim(t) # << >>
        /\ \A i \in 1..Len(parts) : parts[i] = << >> \/ ParseIsize(parts[i]).ok

\* the bounds (single value, start, end) written in a numeric token
BoundsOfToken(t) ==
    LET parts == Splitn3(Trim(t))
    IN  { ParseIsize(parts[i]).val :
              i \in { j \in 1..Min(2, Len(parts)) : parts[j] # << >> } }

\* the bounds of a raw selector that lie outside a file of n lines
OutOfRangeBounds(raw, n) == { k \in BoundsOfRaw(raw) : Abs(k) > n }

C11_EmptyFileIsHandledFirst ==
    (file = << >> /\ original_line_selectors # << >>)
    => /\ pc \notin {"normalise", "sort", "read", "print"}
       /\ pc = "done" => /\ exit = "ok"
                         /\ reads = << >>
                         /\ stdout = IF plain THEN << >> ELSE EmptyFileMessage

(***************************************************************************)
(* C12: for n_lines >= 1, a plain range or a range with positive step      *)
(* fails with the start-more-than-end error exactly when its bounds are    *)
(* within the file and the converted start exceeds the converted end; a    *)
(* range with negative step fails with the start-less-than-end error       *)
(* exactly when its bounds are within the file and the converted start is  *)
(* below the converted end.  The comparison is on converted positions.     *)
(***************************************************************************)
C12_DirectionErrors ==
    (/\ pc = "normed"
     /\ n_lines >= 1
     /\ norm_raw.kind \in {"Range", "RangeWithStep"})
    => LET s == ConvStart(norm_raw, n_lines)
           e == ConvEnd(norm_raw, n_lines)
           in_file == OutOfRangeBounds(norm_raw, n_lines) = {}
       IN  /\ (~norm_result.ok /\ norm_result.err = StartMoreThanEnd)
                  <=> (in_file /\ StepOf(norm_raw) > 0 /\ s > e)
           /\ (~norm_result.ok /\ norm_result.err = StartLessThanEnd)
                  <=> (in_file /\ StepOf(norm_raw) < 0 /\ s < e)
           /\ (in_file /\ StepOf(norm_raw) > 0 /\ s <= e) => norm_result.ok
           /\ (in_file /\ StepOf(norm_raw) < 0 /\ s >= e) => norm_result.ok

\* -1:2 on three lines: the raw start is below the raw end, the converted start
\* is not
C12_Witness ==
    /\ pc = "normed"
    /\ n_lines = 3
    /\ norm_raw = RawRange(Some(-1), Some(2))
    /\ ~norm_result.ok
    /\ norm_result.err = StartMoreThanEnd

(***************************************************************************)
(* C13: once the counting pass is over, if any selector of the list fails  *)
(* normalisation the run never enters the read pass: it ends with a        *)
(* failure, nothing was read through the LineReader and stdout is empty,   *)
(* also when valid selectors precede the failing one.                      *)
(***************************************************************************)
\* the run got as far as normalisation: it did not end at argument parsing, at the
\* binary check or at the empty-file return
NormalisationReached ==
    \/ pc \in {"normalise", "sort", "read", "print"}
    \/ /\ pc = "done"
       /\ exit # "usage"
       /\ error.cause # BinaryFile
       /\ ~(file = << >> /\ ~allow_binary_files)

\* the positions of the selectors that from_raw rejects for the counted n_lines
FailingSelectors ==
    { i \in 1..Len(original_line_selectors) :
          ~from_raw(original_line_selectors[i].raw, n_lines).ok }

C13_FailsBeforeReadPass ==
    (NormalisationReached /\ FailingSelectors # {})
    => /\ pc \in {"normalise", "done"}
       /\ pc = "done" => exit \in {"error", "panic"}
       /\ reads = << >>
       /\ lines = << >>
       /\ stdout = << >>

\* the second selector of the list is the one that fails
C13_Witness ==
    /\ pc = "done"
    /\ exit = "error"
    /\ Len(original_line_selectors) = 2
    /\ FailingSelectors = {2}
    /\ error.selector = original_line_selectors[2].text
    /\ reads = << >>
    /\ stdout = << >>

(***************************************************************************)
(* Integer literals, read off the bytes.                                   *)
(***************************************************************************)
\* the bytes of p after an optional sign
Unsigned(p) == IF p # << >> /\ p[1] \in {Minus, Plus} THEN Tail(p) ELSE p

\* an optional sign and at least one digit, nothing else
IsIntLiteral(p) ==
    /\ Unsigned(p) # << >>
    /\ \A i \in 1..Len(Unsigned(p)) : Unsigned(p)[i] \in Zero..(Zero + 9)

\* an integer literal all of whose digits are 0
IsZeroLiteral(p) ==
    /\ IsIntLiteral(p)
    /\ \A i \in 1..Len(Unsigned(p)) : Unsigned(p)[i] = Zero

\* the numbers a raw selector holds: single value, start, end and step
NumbersOfRaw(raw) ==
    { b.v : b \in { x \in {raw.start, raw.end, raw.step} : x.some } }

(***************************************************************************)
(* C14: from_str rejects a zero in every numeric position (single value,   *)
(* start, end, step) with the zero-not-allowed error, whenever the parts   *)
(* before it are empty or non-zero integers; from_str takes no n_lines,    *)
(* and no selector it returns holds a zero, so no zero reaches from_raw.   *)
(***************************************************************************)
C14_ZeroRejectedAtParse ==
    pc = "parsed"
    => LET parts == Splitn3(Trim(parse_str))
       IN  /\ \A i \in 1..Len(parts) :
                  (/\ IsZeroLiteral(parts[i])
                   /\ \A j \in 1..(i - 1) :
                          parts[j] = << >>
                          \/ (IsIntLiteral(parts[j]) /\ ~IsZeroLiteral(parts[j])))
                  => (~parse_result.ok /\ parse_result.err = ZeroNotAllowed)
           /\ parse_result.ok => 0 \notin NumbersOfRaw(parse_result.val)

\* the step of 1:1:0 is zero
C14_Witness ==
    /\ pc = "parsed"
    /\ parse_str = <<Zero + 1, Colon, Zero + 1, Colon, Zero>>
    /\ ~parse_result.ok
    /\ parse_result.err = ZeroNotAllowed

(***************************************************************************)
(* C15: for n_lines >= 1, every successful result of from_raw is within    *)
(* the file and in the direction of its step: Single(line) has             *)
(* 0 <= line < n_lines; Range(start, end, step) has start < n_lines,       *)
(* end < n_lines, step # 0, start <= end when step > 0 and start >= end    *)
(* when step < 0.                                                          *)
(***************************************************************************)
C15_ResultWithinFile ==
    (pc = "normed" /\ n_lines >= 1 /\ norm_result.ok)
    => LET r == norm_result.val
       IN  /\ r.kind \in {"Single", "Range"}
           /\ r.kind = "Single" => (0 <= r.start /\ r.start < n_lines)
           /\ r.kind = "Range" =>
                  /\ 0 <= r.start /\ r.start < n_lines
                  /\ 0 <= r.end /\ r.end < n_lines
                  /\ r.step # 0
                  /\ r.step > 0 => r.start <= r.end
                  /\ r.step < 0 => r.start >= r.end

C15_Witness ==
    /\ pc = "normed"
    /\ n_lines = 5
    /\ norm_raw = RawRangeWithStep(Some(5), Some(2), Some(-2))
    /\ norm_result.ok
    /\ norm_result.val = Range(4, 2, -2)

(***************************************************************************)
(* C16: on a stream of L lines, read_specific_line(target) with            *)
(* current_line <= target < L appends to the buffer exactly the bytes of   *)
(* line target (through its line feed, or up to the end of an unterminated *)
(* last line), none of the skipped lines, and leaves                       *)
(* current_line = target + 1.                                              *)
(***************************************************************************)
C16_ReadsExactlyTheTarget ==
    (/\ last_call.op = "read_specific_line"
     /\ last_call.before.current_line <= last_call.arg
     /\ last_call.arg < NumPhysLines(file))
    => /\ pc = "reader"
       /\ lin_buf = last_call.buf_before \o PhysLine(file, last_call.arg)
       /\ current_line = last_call.arg + 1

\* line 2 is read after line 0, into a buffer that holds a byte: line 1 is
\* skipped
C16_Witness ==
    /\ file = <<LetterO, NL, LetterO + 1, NL, LetterO>>
    /\ last_call.op = "read_specific_line"
    /\ last_call.arg = 2
    /\ last_call.before.current_line = 1
    /\ last_call.buf_before = <<Space>>
    /\ lin_buf = <<Space, LetterO>>
    /\ current_line = 3

(***************************************************************************)
(* C17: on a stream of L lines, a skip_lines(n) or read_specific_line      *)
(* (target) that would pass the end of input succeeds, adds no byte for    *)
(* the missing line and leaves current_line = L; in every state            *)
(* current_line is the number of lines consumed so far, has not decreased  *)
(* in the last call and does not exceed L.                                 *)
(***************************************************************************)
C17_CurrentLineCountsConsumedLines ==
    LET L == NumPhysLines(file)
    IN  /\ current_line = NumPhysLines(SubSeq(file, 1, pos))
        /\ pos = 0 \/ pos = Len(file) \/ file[pos] = NL
        /\ current_line >= last_call.before.current_line
        /\ current_line <= L
        /\ (last_call.op = "skip_lines"
            /\ last_call.before.current_line + last_call.arg > L)
           => (pc = "reader" /\ current_line = L /\ pos = Len(file))
        /\ (last_call.op = "read_specific_line" /\ last_call.arg >= L)
           => (pc = "reader" /\ current_line = L /\ lin_buf = last_call.buf_before)

\* line 4 of a stream of two lines is asked for
C17_Witness ==
    /\ file = <<LetterO, NL, LetterO + 1>>
    /\ last_call.op = "read_specific_line"
    /\ last_call.arg = 4
    /\ last_call.before.current_line = 1
    /\ lin_buf = last_call.buf_before
    /\ current_line = 2


(***************************************************************************)
(* C18: the comparison that sorts the normalised selectors is a total      *)
(* order on them: any two are comparable and the two directions agree, it  *)
(* is transitive, and cmp(a, b) = Equal only when a = b under the derived  *)
(* equality of ParsedLineSelector (same variant, same fields).             *)
(***************************************************************************)
Flip(o) == IF o = "Less" THEN "Greater" ELSE IF o = "Greater" THEN "Less" ELSE "Equal"

C18_CmpIsTotalOrder ==
    \A i, j, k \in DOMAIN line_selectors :
        LET a == line_selectors[i].parsed
            b == line_selectors[j].parsed
            c == line_selectors[k].parsed
        IN  /\ cmp(a, b) \in {"Less", "Equal", "Greater"}
            /\ cmp(b, a) = Flip(cmp(a, b))
            /\ (cmp(a, b) # "Greater" /\ cmp(b, c) # "Greater") => cmp(a, c) # "Greater"
            /\ cmp(a, b) = "Equal" => a = b

\* the rest of the total order without antisymmetry, for the same selectors
C18_CmpIsTotalPreorder ==
    \A i, j, k \in DOMAIN line_selectors :
        LET a == line_selectors[i].parsed
            b == line_selectors[j].parsed
            c == line_selectors[k].parsed
        IN  /\ cmp(b, a) = Flip(cmp(a, b))
            /\ (cmp(a, b) # "Greater" /\ cmp(b, c) # "Greater") => cmp(a, c) # "Greater"


(***************************************************************************)
(* C19: when the first bytes of the file are reported as binary and        *)
(* --allow-binary-files is not given, the run ends with a non-zero exit    *)
(* before any selector is normalised: nothing is counted, read or written  *)
(* to stdout.  When the flag is given the binary check plays no part: the  *)
(* run is never stopped as a binary file, its lines are counted as those   *)
(* of any file, and what reaches stdout is, selector by selector, the      *)
(* bytes of the selected lines as they stand in the file.                  *)
(***************************************************************************)
\* the file has a NUL byte among the bytes handed to the content inspector
ReportedBinary == \E i \in 1..Len(file) : i <= PrefixLen /\ file[i] = NUL

C19_BinaryCheckAndItsBypass ==
    /\ (ReportedBinary /\ ~allow_binary_files)
       => /\ pc \in {"args", "prefix", "done"}
          /\ n_lines = 0
          /\ line_selectors = << >>
          /\ reads = << >>
          /\ stdout = << >>
          /\ pc = "done" => exit \in {"usage", "error"}
          /\ (pc = "done" /\ exit = "error") => error.cause = BinaryFile
    /\ (ReportedBinary /\ allow_binary_files)
       => /\ error.cause # BinaryFile
          /\ pc \in {"normalise", "sort", "read", "print"} => n_lines = NumPhysLines(file)
          /\ (pc = "done" /\ line_selectors # << >> /\ plain)
             => stdout = ConcatLines(file, AllWalks(line_selectors))
          /\ (pc = "done" /\ Len(line_selectors) = 1 /\ ~plain)
             => stdout = original_line_selectors[1].text \o <<NL>>
                         \o ConcatLines(file, AllWalks(line_selectors))

C19_Witness ==
    /\ file = <<NUL, LetterO, NL, LetterO + 1, NL>>
    /\ allow_binary_files
    /\ plain
    /\ pc = "done"
    /\ exit = "ok"
    /\ line_selectors # << >>
    /\ line_selectors[1].parsed = Single(0)
    /\ stdout = <<NUL, LetterO, NL>>

\* the run of the same file without the flag
C19_RejectedWitness ==
    /\ file = <<NUL, LetterO, NL, LetterO + 1, NL>>
    /\ ~allow_binary_files
    /\ pc = "done"
    /\ exit = "error"
    /\ error.cause = BinaryFile
    /\ original_line_selectors # << >>


(***************************************************************************)
(* The shape of a token, read off its bytes.                               *)
(***************************************************************************)
\* the token between its first and its last byte that is not a space
Core(t) ==
    LET ns == { i \in 1..Len(t) : t[i] # Space }
    IN  IF ns = {} THEN << >>
        ELSE SubSeq(t, CHOOSE i \in ns : \A j \in ns : i <= j,
                       CHOOSE i \in ns : \A j \in ns : j <= i)

ColonsOf(s) == { i \in 1..Len(s) : s[i] = Colon }

\* the offset of the k-th ':' of s; 0 for k = 0 and Len(s) + 1 past the last one
ColonAt(s, k) ==
    IF k = 0 THEN 0
    ELSE IF k > Cardinality(ColonsOf(s)) THEN Len(s) + 1
    ELSE CHOOSE i \in ColonsOf(s) : Cardinality({ j \in ColonsOf(s) : j <= i }) = k

\* s split at every ':'
PartsOf(s) ==
    [k \in 1..(Cardinality(ColonsOf(s)) + 1) |->
        SubSeq(s, ColonAt(s, k - 1) + 1, ColonAt(s, k) - 1)]

RECURSIVE Magnitude(_)
\* the number the digits d spell
Magnitude(d) ==
    IF d = << >> THEN 0 ELSE (Head(d) - Zero) * 10 ^ (Len(d) - 1) + Magnitude(Tail(d))

\* the value of the integer literal p
LiteralValue(p) == IF p[1] = Minus THEN 0 - Magnitude(Unsigned(p)) ELSE Magnitude(Unsigned(p))

\* what an accepted part stands for
PartValue(p) == IF p = << >> THEN None ELSE Some(LiteralValue(p))

\* non-empty after trimming; one, two or three parts; each part empty (not in
\* the one-part form) or a non-zero integer literal
IsWellFormedToken(t) ==
    LET parts == PartsOf(Core(t))
    IN  /\ Core(t) # << >>
        /\ Len(parts) \in 1..3
        /\ \A i \in 1..Len(parts) :
               \/ parts[i] = << >> /\ Len(parts) >= 2
               \/ IsIntLiteral(parts[i]) /\ ~IsZeroLiteral(parts[i])

(***************************************************************************)
(* C20: from_str succeeds exactly on the well-formed tokens; one part      *)
(* gives Single, two parts Range, three parts RangeWithStep, each field    *)
(* holding the value of its part or nothing for an empty part; every other *)
(* token (empty, four or more parts, a part that is not an integer, a      *)
(* space next to a ':', a zero) is an error.                               *)
(***************************************************************************)
C20_AcceptsExactlyWellFormedTokens ==
    pc = "parsed"
    => LET parts == PartsOf(Core(parse_str))
       IN  /\ parse_result.ok <=> IsWellFormedToken(parse_str)
           /\ parse_result.ok
              => parse_result.val =
                     IF Len(parts) = 1 THEN RawSingle(LiteralValue(parts[1]))
                     ELSE IF Len(parts) = 2
                     THEN RawRange(PartValue(parts[1]), PartValue(parts[2]))
                     ELSE RawRangeWithStep(PartValue(parts[1]), PartValue(parts[2]),
                                           PartValue(parts[3]))

C20_Witness ==
    /\ pc = "parsed"
    /\ parse_str = <<Space, Minus, Zero + 1, Colon, Colon>>
    /\ parse_result = Ok(RawRangeWithStep(Some(-1), None, None))

\* a token of four parts is refused
C20_FourPartsWitness ==
    /\ pc = "parsed"
    /\ parse_str = <<Colon, Colon, Colon>>
    /\ ~parse_result.ok


(***************************************************************************)
(* Canonical tokens: what to_string writes for a number is an optional '-' *)
(* and digits that do not start with 0.                                    *)
(***************************************************************************)
IsCanonicalInt(p) ==
    LET d == IF p # << >> /\ p[1] = Minus THEN Tail(p) ELSE p
    IN  /\ d # << >>
        /\ \A i \in 1..Len(d) : d[i] \in Zero..(Zero + 9)
        /\ d[1] # Zero

\* one of the 13 shapes: a number; start:end; start:end:step, with any of the
\* components of the two range forms left out
IsCanonicalToken(t) ==
    LET parts == PartsOf(t)
    IN  /\ Len(parts) \in 1..3
        /\ \A i \in 1..Len(parts) :
               \/ parts[i] = << >> /\ Len(parts) >= 2
               \/ IsCanonicalInt(parts[i])

(***************************************************************************)
(* C21: to_string and from_str are inverse on canonical tokens.  A         *)
(* canonical token is accepted and formatting the result gives the token   *)
(* back; formatting a RawLineSelector whose components are non-zero and    *)
(* parsing the text gives the selector back.                               *)
(***************************************************************************)
C21_DisplayAndFromStrAreInverse ==
    /\ (pc \in {"parsed", "shown"} /\ IsCanonicalToken(parse_str)) => parse_result.ok
    /\ (pc = "shown" /\ IsCanonicalToken(parse_str)) => display_str = parse_str
    /\ pc = "reparsed" => /\ IsCanonicalToken(display_str)
                          /\ parse_result = Ok(norm_raw)

C21_Witness ==
    /\ pc = "shown"
    /\ parse_str = <<Minus, Zero + 1, Colon, Zero + 1, Zero>>
    /\ parse_result = Ok(RawRange(Some(-1), Some(10)))
    /\ display_str = parse_str

\* the other direction: a selector with an open end and no step, formatted and parsed
C21_ReparsedWitness ==
    /\ pc = "reparsed"
    /\ norm_raw = RawRangeWithStep(Some(-MaxShown), None, None)
    /\ display_str = <<Minus, Zero + 1, Zero + 2, Colon, Colon>>
    /\ parse_result = Ok(norm_raw)


(***************************************************************************)
(* What a call of the writer appended to the sink.                         *)
(***************************************************************************)
Written == SubSeq(stdout, Len(last_write.before) + 1, Len(stdout))

DecoratedWriters ==
    { "NotColoredOutputWriter", "ColoredOutputWriter",
      "not_colored_decorated", "colored_and_decorated" }

\* the decorated writers of output/, which are told whether the header is the first
DecoratedModuleWriters == { "not_colored_decorated", "colored_and_decorated" }

\* a header call of a decorated writer in ws wrote a separating line feed
\* exactly when the header was not the first
SeparatesHeaders(ws) ==
    (policy \in ws /\ last_write.op = "print_line_selector_header")
    => /\ Len(Written) >= 2
       /\ Written[Len(Written)] = NL
       /\ headers = 1 => Written[1] # NL
       /\ headers > 1 => (Written[1] = NL /\ Written[2] # NL)

(***************************************************************************)
(* C22 (as claimed): a decorated writer puts a blank line before the       *)
(* header of every selector but the first, and none before the first; an   *)
(* undecorated writer writes nothing for a header.                         *)
(***************************************************************************)
C22_BlankLineBetweenHeaders ==
    /\ SeparatesHeaders(DecoratedWriters)
    /\ (policy \in Writers \ DecoratedWriters /\ last_write.op = "print_line_selector_header")
       => Written = << >>

\* the same for the writers of output/ alone, and the undecorated ones
C22_ModuleWritersSeparateHeaders ==
    /\ SeparatesHeaders(DecoratedModuleWriters)
    /\ (policy \in Writers \ DecoratedWriters /\ last_write.op = "print_line_selector_header")
       => Written = << >>


(***************************************************************************)
(* Decoration, read off the bytes written: an escape sequence is ESC '['   *)
(* ... 'm'; a number prefix is digits, ':' and a space, with escape        *)
(* sequences around the number and after the space.                        *)
(***************************************************************************)
ESC == 27

\* s without a leading escape sequence
DropEsc(s) ==
    IF Len(s) >= 2 /\ s[1] = ESC /\ s[2] = 91 /\ (\E k \in 1..Len(s) : s[k] = 109)
    THEN LET k == CHOOSE k \in 1..Len(s) : s[k] = 109 /\ \A j \in 1..(k - 1) : s[j] # 109
         IN  SubSeq(s, k + 1, Len(s))
    ELSE s

\* s without a trailing escape sequence
DropTrailingEsc(s) ==
    IF s # << >> /\ s[Len(s)] = 109 /\ (\E k \in 1..Len(s) : s[k] = ESC)
    THEN LET k == CHOOSE k \in 1..Len(s) : s[k] = ESC /\ \A j \in (k + 1)..Len(s) : s[j] # ESC
         IN  SubSeq(s, 1, k - 1)
    ELSE s

RECURSIVE DropDigits(_)
DropDigits(s) ==
    IF s # << >> /\ Head(s) \in Zero..(Zero + 9) THEN DropDigits(Tail(s)) ELSE s

\* s without one leading byte c
DropByte(s, c) == IF s # << >> /\ Head(s) = c THEN Tail(s) ELSE s

\* s without a leading number prefix
DropNumber(s) ==
    DropByte(DropEsc(DropByte(DropDigits(DropEsc(s)), Colon)), Space)

\* what is left of the bytes of a printed line without its decoration
Undecorate(s, decorated) ==
    DropTrailingEsc(DropEsc(IF decorated THEN DropNumber(s) ELSE s))

\* the writers that use no color and no decoration
PlainWriters == { "PlainOutputWriter", "not_colored_not_decorated" }

(***************************************************************************)
(* C23: for a Context or a Selected line and every writer, the bytes       *)
(* print_line writes hold the bytes of the line once, unchanged and in one *)
(* piece, between decoration bytes only: without the number prefix and the *)
(* color codes, what is left is the line, the same under every writer.     *)
(* The plain writer writes the line and nothing else.                      *)
(***************************************************************************)
C23_SameContentUnderEveryWriter ==
    last_write.op = "print_line"
    => LET line == last_write.line.line
       IN  /\ Undecorate(Written, policy \in DecoratedWriters) = line
           /\ \E k \in 0..(Len(Written) - Len(line)) :
                  SubSeq(Written, k + 1, k + Len(line)) = line
           /\ policy \in PlainWriters => Written = line
           /\ stdout = last_write.before \o Written

C23_Witness ==
    /\ policy = "colored_and_decorated"
    /\ last_write.op = "print_line"
    /\ last_write.line = Selected(MaxLineNum, <<Zero + 1, Colon, Space, LetterO, NL>>)
    /\ Written = GREEN_BOLD \o DisplayInt(MaxLineNum + 1) \o <<Colon>> \o CLEAR \o <<Space>>
                 \o RED \o <<Zero + 1, Colon, Space, LetterO, NL>> \o CLEAR
    /\ last_write.before # << >>


(***************************************************************************)
(* C24 (as claimed): after the read pass every key k of the cache holds    *)
(* the bytes of physical line k of the file, its line feed included when   *)
(* it has one: no key holds the bytes of another line or no bytes.         *)
(***************************************************************************)
C24_CacheHoldsTheLines ==
    pc \in {"print", "done"}
    => \A k \in DOMAIN lines : lines[k] # << >> /\ lines[k] = PhysLine(file, k)

\* the same for a file that is not empty, while the numbers asked of the reader
\* ascend and the count is right
C24_CacheHoldsTheLinesReadInOrder ==
    (/\ pc \in {"read", "print", "done"}
     /\ file # << >>
     /\ n_lines = NumPhysLines(file)
     /\ \A i \in 1..Len(reads) : reads[i].current_line <= reads[i].line_num)
    => \A k \in DOMAIN lines : lines[k] # << >> /\ lines[k] = PhysLine(file, k)


(***************************************************************************)
(* The line numbers of a selector as the read pass expands it.             *)
(***************************************************************************)
ReadNums(sel) == { ReadNum(sel, k) : k \in { j \in 0..MaxLines : HasReadNum(sel, j) } }

\* the line numbers of a sequence
Elements(seq) == { seq[i] : i \in 1..Len(seq) }

(***************************************************************************)
(* C25 (as claimed): every line number the output pass looks up is a key   *)
(* of the cache, for both step signs: the expansion read for a selector    *)
(* and the walk printed for it visit the same line numbers, and no lookup  *)
(* fails.                                                                  *)
(***************************************************************************)
C25_EveryLookupIsCached ==
    /\ \A i \in 1..Len(lookups) : lookups[i] \in DOMAIN lines
    /\ pc \in {"print", "done"}
       => \A i \in 1..Len(line_selectors) :
              ReadNums(line_selectors[i].parsed) \subseteq DOMAIN lines
    /\ (pc = "done" /\ line_selectors # << >> /\ exit # "panic")
       => Elements(lookups) = DOMAIN lines

\* the same for the runs without a range of negative step
C25_EveryLookupIsCachedForward ==
    (\A i \in 1..Len(line_selectors) : line_selectors[i].parsed.step >= 0)
    => /\ \A i \in 1..Len(lookups) : lookups[i] \in DOMAIN lines
       /\ (pc = "done" /\ line_selectors # << >> /\ exit # "panic")
          => Elements(lookups) = DOMAIN lines


(***************************************************************************)
(* The read pass as a function of the sorted list: main.rs 81-105 run to   *)
(* its end from a new LineReader and an empty cache.                       *)
(***************************************************************************)
\* the line numbers the read pass asks a selector for, in order
ReadSeq(sel) == [k \in 1..Len(Walk(sel)) |-> ReadNum(sel, k - 1)]

RECURSIVE ReadSeqs(_)
ReadSeqs(sels) ==
    IF sels = << >> THEN << >> ELSE ReadSeq(Head(sels).parsed) \o ReadSeqs(Tail(sels))

RECURSIVE ReadAll(_, _, _)
\* the pass over the line numbers nums, from the state st of reader and cache
ReadAll(bytes, nums, st) ==
    IF nums = << >> \/ st.panic THEN st
    ELSE IF ~IsVacant(st.lines, Head(nums)) THEN ReadAll(bytes, Tail(nums), st)
    ELSE LET r == read_line(bytes, st.rd, Head(nums))
             asked == Append(st.reads, [line_num |-> Head(nums),
                                        current_line |-> st.rd.current_line])
         IN  IF r.ok
             THEN ReadAll(bytes, Tail(nums),
                          [rd |-> r.val.rd, lines |-> st.lines @@ (Head(nums) :> r.val.buf),
                           reads |-> asked, panic |-> FALSE])
             ELSE [st EXCEPT !.reads = asked, !.panic = TRUE]

\* what the read pass leaves for the sorted list sorted: whether it panicked,
\* the lines read in order, the cache
ReadPass(bytes, sorted) ==
    LET st == ReadAll(bytes, ReadSeqs(sorted),
                      [rd |-> NewReader, lines |-> << >>, reads |-> << >>, panic |-> FALSE])
    IN  [panic |-> st.panic, reads |-> st.reads, lines |-> st.lines]

\* the orders sort_unstable may leave the selectors in
SortedOrders(sels) ==
    { [i \in 1..Len(sels) |-> sels[perm[i]]] :
          perm \in { q \in [1..Len(sels) -> 1..Len(sels)] : IsSortedBy(sels, q) } }

\* the function agrees with the steps of the read pass
ReadPassIsTheReadPass ==
    (Len(line_selectors) >= 2 /\ pc \in {"print", "done"})
    => LET rp == ReadPass(file, sorted_line_selectors)
       IN  /\ rp.reads = reads
           /\ rp.lines = lines
           /\ rp.panic => exit = "panic"

(***************************************************************************)
(* C26 (as claimed): whatever order the sort leaves selectors with the     *)
(* same lower bound in, the read pass ends the same way: same panic or     *)
(* not, same lines read in the same order, same cache, hence the same      *)
(* output.                                                                 *)
(***************************************************************************)
C26_TieOrderDoesNotMatter ==
    (pc = "read" /\ sel_i = 1 /\ num_i = 0 /\ Len(line_selectors) >= 2)
    => \A other \in SortedOrders(line_selectors) :
           ReadPass(file, other) = ReadPass(file, sorted_line_selectors)

\* the cache and the success of the pass do not depend on the order of ties when
\* no selector has a step other than 1 or -1
C26_TieOrderDoesNotMatterWithoutSteps ==
    (/\ pc = "read" /\ sel_i = 1 /\ num_i = 0 /\ Len(line_selectors) >= 2
     /\ \A i \in 1..Len(line_selectors) : Abs(line_selectors[i].parsed.step) <= 1)
    => \A other \in SortedOrders(line_selectors) :
           LET a == ReadPass(file, other)
               b == ReadPass(file, sorted_line_selectors)
           IN  a.panic = b.panic /\ a.lines = b.lines


(***************************************************************************)
(* C27 (as claimed): from_raw returns Range(start, end, step) only with    *)
(* start # end; a selector that visits one line, a stepped range whose     *)
(* |step| is larger than the distance between its converted bounds         *)
(* included, is returned as Single.                                        *)
(***************************************************************************)
C27_OneLineIsSingle ==
    (pc = "normed" /\ n_lines >= 1 /\ norm_result.ok)
    => /\ norm_result.val.kind = "Range" => norm_result.val.start # norm_result.val.end
       /\ Len(Walk(norm_result.val)) = 1 => norm_result.val.kind = "Single"

\* the same for the selectors whose |step| is not larger than the distance between
\* the converted bounds
C27_OneLineIsSingleWithinStep ==
    (/\ pc = "normed" /\ n_lines >= 1 /\ norm_result.ok
     /\ Abs(StepOf(norm_raw)) <= Abs(ConvEnd(norm_raw, n_lines) - ConvStart(norm_raw, n_lines))
        \/ ConvEnd(norm_raw, n_lines) = ConvStart(norm_raw, n_lines))
    => /\ norm_result.val.kind = "Range" => norm_result.val.start # norm_result.val.end
       /\ Len(Walk(norm_result.val)) = 1 => norm_result.val.kind = "Single"


(***************************************************************************)
(* C28 (as claimed): at the end of the read pass the reader has consumed   *)
(* no line beyond the highest one requested: current_line is at most the   *)
(* largest line number of the expansions of the selectors, plus one.       *)
(***************************************************************************)
\* the largest line number the read pass asks for
HighestRequested ==
    LET nums == UNION { ReadNums(line_selectors[i].parsed) : i \in 1..Len(line_selectors) }
    IN  CHOOSE m \in nums : \A k \in nums : k <= m

C28_ReadsNoFurtherThanAsked ==
    (pc \in {"print", "done"} /\ line_selectors # << >> /\ sorted_line_selectors # << >>)
    => current_line <= HighestRequested + 1

\* the same while the line numbers asked of the reader ascend
C28_ReadsNoFurtherThanAskedInOrder ==
    (/\ pc \in {"print", "done"} /\ line_selectors # << >> /\ sorted_line_selectors # << >>
     /\ \A i \in 1..Len(reads) : reads[i].current_line <= reads[i].line_num)
    => current_line <= HighestRequested + 1


(***************************************************************************)
(* C29: once the output pass has begun, the cache and the reader are left  *)
(* as they are: a step of the output pass looks up and writes, it inserts  *)
(* or overwrites no key, reads no line and does not move the reader.       *)
(***************************************************************************)
C29_OutputPassOnlyLooksUp ==
    [][pc = "print" => /\ lines' = lines
                       /\ reads' = reads
                       /\ pos' = pos
                       /\ current_line' = current_line
                       /\ pc' \in {"print", "done"}
                       /\ Len(lookups') = Len(lookups) + 1]_vars

C29_Witness ==
    /\ pc = "done"
    /\ exit = "ok"
    /\ file = <<LetterO, NL, LetterO + 1, NL, LetterO + 2, NL>>
    /\ Len(line_selectors) = 2
    /\ line_selectors[1].parsed = Single(1)
    /\ line_selectors[2].parsed = Range(0, 1, 1)
    /\ lookups = <<1, 0, 1>>
    /\ Len(reads) = 2
    /\ DOMAIN lines = {0, 1}
    /\ current_line = 2

====
